---- MODULE Spec2Model ----
(***************************************************************************)
(* The two-level walk of src/bin/scrape.rs: main fetches the index page,   *)
(* collects its top-level anchors, and for every anchor fetches the user's *)
(* page (get_user / get_html), optionally mirrors the page and its three   *)
(* assets under snapshot/<timestamp>/, and writes one CSV record per       *)
(* main-content anchor of the user's page.                                 *)
(*                                                                         *)
(* Strings are sequences of one-character strings, so that trimming and    *)
(* splitting are computed as the code computes them.  Option<T> is a       *)
(* sequence of length 0 (None) or 1 (Some).  A parsed document is           *)
(* immutable and the program evaluates every selector at most once per     *)
(* document, so the model draws the result of a selector when the program  *)
(* evaluates it: doc holds what the asset selectors matched during the     *)
(* current call of get_html, heading and anchors what get_user and main    *)
(* matched.                                                                *)
(***************************************************************************)
EXTENDS Integers, Sequences, FiniteSets, TLC

VARIABLES
    disable_snapshot, \* Opts: the --disable-snapshot flag
    snapshot_dir,   \* main: Option<PathBuf>, a path is a sequence of components
    pc,             \* position of the single task
    page,           \* 0 while the index page is handled, k for the k-th index anchor
    url,            \* get_html: the url of the page being handled
    target_dir,     \* get_html: the snapshot_dir argument of the current call
    doc,            \* get_html: asset selector |-> its first match, for the
                    \* selectors evaluated so far during the current call
    heading,        \* get_user: the first match of body > main > h1 on the
                    \* current user's page
    anchors,        \* anchors[1]: the elements body > a matched on the index page,
                    \* anchors[k + 1]: those body > main > a matched on user k's page
    users,          \* main: the (raw_url, display_name) pairs collected from the index
    completed,      \* main: the iterations of the loop over users that ran to their end
    screen_name,    \* main: the screen name of the current user
    titles,         \* main: the (url, title) pairs get_user returned
    rows,           \* the records written to the csv writer, in order
    fetched,        \* the urls of the pages requested so far, in order
    ops,            \* the GETs and filesystem operations of the current get_html call
    dirs,           \* filesystem: directory |-> the pages whose snapshot used it
    warned,         \* get_user: a warning was logged for the current user's heading
    err             \* the error main returned, "None" while there is none

vars == <<disable_snapshot, snapshot_dir, pc, page, url, target_dir, doc, heading, anchors,
          users, completed, screen_name, titles, rows, fetched, ops, dirs, warned,
          err>>

----------------------------------------------------------------------------
(* Bounds of the model *)

MaxUsers == 2      \* top-level anchors of the index page
MaxLinks == 2      \* main-content anchors of a user page

----------------------------------------------------------------------------
(* Option and Result *)

None == <<>>
Some(x) == <<x>>
Ok(v) == [ok |-> TRUE, val |-> v]
Err(e) == [ok |-> FALSE, val |-> e]

(* Sequences of length at most n over S *)
SeqUpTo(S, n) == UNION {[1..k -> S] : k \in 0..n}

----------------------------------------------------------------------------
(* String functions of the standard library, on sequences of characters *)

RECURSIVE trim_end_matches(_, _)
trim_end_matches(s, c) ==
    IF s # <<>> /\ s[Len(s)] = c
    THEN trim_end_matches(SubSeq(s, 1, Len(s) - 1), c)
    ELSE s

RECURSIVE split(_, _)
split(s, c) ==
    IF \E i \in 1..Len(s) : s[i] = c
    THEN LET i == CHOOSE j \in 1..Len(s) :
                      s[j] = c /\ \A k \in 1..(j - 1) : s[k] # c
         IN <<SubSeq(s, 1, i - 1)>> \o split(SubSeq(s, i + 1, Len(s)), c)
    ELSE <<s>>

last(it) == IF it = <<>> THEN None ELSE Some(it[Len(it)])

(* str::trim, for the whitespace the model's pages contain: the space *)
RECURSIVE trim_start(_)
trim_start(s) ==
    IF s # <<>> /\ s[1] = " " THEN trim_start(SubSeq(s, 2, Len(s))) ELSE s

trim(s) == trim_start(trim_end_matches(s, " "))

----------------------------------------------------------------------------
(* Program constants *)

Host == <<"f","i","n","d","m","y","f","r","e","n","s",".","n","e","t">>
BASE_URL == [host |-> Host, path |-> <<"/">>]
SNAPSHOT_BASE_DIR == <<"s","n","a","p","s","h","o","t">>
(* Utc::now().format(TIMESTAMP_FMT): taken once per run *)
RunTimestamp == <<"2","0","2","6","0","1","0","1","0","0","0","0","0","0">>
IndexHtml == <<"i","n","d","e","x",".","h","t","m","l">>

(* Url::join for references made of a path: a reference starting with "//" *)
(* names a host (the slashes after the second are skipped) and fails when  *)
(* the host is empty; one starting with "/" replaces the path; the empty   *)
(* reference is the base; any other reference replaces the last segment of *)
(* the base path.                                                          *)
RECURSIVE skip_slashes(_)
skip_slashes(s) ==
    IF s # <<>> /\ s[1] = "/" THEN skip_slashes(SubSeq(s, 2, Len(s))) ELSE s

UrlJoin(base, ref) ==
    IF Len(ref) >= 2 /\ ref[1] = "/" /\ ref[2] = "/"
    THEN LET rest == skip_slashes(ref)
             segs == split(rest, "/")
         IN IF rest = <<>>
            THEN Err("Url")
            ELSE Ok([host |-> segs[1],
                     path |-> <<"/">> \o SubSeq(rest, Len(segs[1]) + 2, Len(rest))])
    ELSE IF ref # <<>> /\ ref[1] = "/"
    THEN Ok([host |-> base.host, path |-> ref])
    ELSE IF ref = <<>>
    THEN Ok(base)
    ELSE LET segs == split(base.path, "/")
             dir == SubSeq(base.path, 1, Len(base.path) - Len(segs[Len(segs)]))
         IN Ok([host |-> base.host, path |-> dir \o ref])

(* Path::join with a relative component: an empty component names the same *)
(* directory                                                               *)
PathJoin(dir, name) == IF name = <<>> THEN dir ELSE Append(dir, name)

----------------------------------------------------------------------------
(* What the fetched pages may contain.  An element is [attr, inner]: attr  *)
(* is the href or src attribute (an Option), inner is inner_html().        *)

Alice == <<"A","l","i","c","e">>
Bob == <<"B","o","b">>

IndexHrefs ==
    { <<"/","u","s","e","r","s","/","a","l","i","c","e","/">>,
      <<"/","u","s","e","r","s","/","a","l","i","c","e">>,
      <<"/","u","s","e","r","s","/">>,
      <<"b","o","b">>,
      <<"/">>,
      <<>>,
      <<"/","/">> }

(* body > a of the index page *)
IndexAnchors ==
    { [attr |-> Some(h), inner |-> IF h = <<"b","o","b">> THEN Bob ELSE Alice] :
        h \in IndexHrefs }
    \cup { [attr |-> None, inner |-> Alice] }

(* body > main > a of a user page: the i-th anchor of a page links to t<i> *)
(* with the label T<i>, and any anchor may lack its href                  *)
Digit(i) == <<"0","1","2","3","4","5","6","7","8","9">>[i + 1]
ProfileAnchorLists ==
    UNION { { [i \in 1..k |->
                 [attr |-> IF i \in missing THEN None ELSE Some(<<"t", Digit(i)>>),
                  inner |-> <<"T", Digit(i)>>]] : missing \in SUBSET (1..k) }
            : k \in 0..MaxLinks }

(* the first match of head > link[rel='stylesheet'], body > header > img *)
(* and body > main > img: no element, an element without the attribute,  *)
(* an element with it                                                    *)
AssetRef(sel) ==
    CASE sel = "stylesheet" -> <<"/","s",".","c","s","s">>
      [] sel = "banner" -> <<"i","/","b",".","p","n","g">>
      [] sel = "profile" -> <<"p",".","p","n","g">>

AssetMatches(sel) ==
    { None,
      Some([attr |-> None, inner |-> <<>>]),
      Some([attr |-> Some(AssetRef(sel)), inner |-> <<>>]) }

(* the first match of body > main > h1 *)
H1Matches ==
    { None,
      Some([attr |-> None, inner |-> <<" ">> \o Alice \o <<" ">>]),
      Some([attr |-> None, inner |-> Bob]) }

----------------------------------------------------------------------------
(* The pure functions of scrape.rs *)

parse_a(element) ==
    IF element.attr = None
    THEN Err("InvalidHtml")
    ELSE Ok(<<element.attr[1], element.inner>>)

(* RECURSIVE helper: the elements of a sequence that satisfy parse_a *)
RECURSIVE ValidOnly(_)
ValidOnly(elements) ==
    IF elements = <<>> THEN <<>>
    ELSE IF parse_a(elements[1]).ok
    THEN <<parse_a(elements[1]).val>> \o ValidOnly(Tail(elements))
    ELSE ValidOnly(Tail(elements))

(* collect, were the elements without href skipped (filter_map) *)
collect_SkipInvalid(elements) == Ok(ValidOnly(elements))

(* collect, were the elements taken in reverse order *)
collect_Reversed(elements) ==
    IF \E i \in 1..Len(elements) : ~parse_a(elements[i]).ok
    THEN Err("InvalidHtml")
    ELSE Ok([i \in 1..Len(elements) |->
                parse_a(elements[Len(elements) + 1 - i]).val])

(* .map(parse_a).collect::<Result<Vec<_>, _>>(): the first error, else all *)
collect(elements) ==
    IF \E i \in 1..Len(elements) : ~parse_a(elements[i]).ok
    THEN Err("InvalidHtml")
    ELSE Ok([i \in 1..Len(elements) |-> parse_a(elements[i]).val])

get_stylesheet(link, base_url) ==
    IF link = None
    THEN Ok(None)
    ELSE IF link[1].attr = None
    THEN Err("InvalidHtml")
    ELSE LET href == link[1].attr[1]
             filename == last(split(href, "/"))
             joined == UrlJoin(base_url, href)
         IN IF filename = None THEN Err("InvalidHtml")
            ELSE IF ~joined.ok THEN Err("Url")
            ELSE Ok(Some(<<joined.val, filename[1]>>))

get_img(link, base_url) ==
    IF link = None
    THEN Ok(None)
    ELSE IF link[1].attr = None
    THEN Err("InvalidHtml")
    ELSE LET src == link[1].attr[1]
             filename == last(split(src, "/"))
             joined == UrlJoin(base_url, src)
         IN IF filename = None THEN Err("InvalidHtml")
            ELSE IF ~joined.ok THEN Err("Url")
            ELSE Ok(Some(<<joined.val, filename[1]>>))

(* ScreenName, were the trailing '/' not trimmed *)
ScreenName_NoTrim(raw_url) ==
    LET seg == last(split(raw_url, "/"))
    IN IF seg = None THEN Err("InvalidHtml") ELSE Ok(seg[1])

(* main, lines 36-40 *)
ScreenName(raw_url) ==
    LET seg == last(split(trim_end_matches(raw_url, "/"), "/"))
    IN IF seg = None THEN Err("InvalidHtml") ELSE Ok(seg[1])

(* Record, were the title and the url written in the other order *)
Record_Swapped(sn, display_name, link) == <<sn, display_name, link[1], link[2]>>

(* main, line 50 *)
Record(sn, display_name, link) == <<sn, display_name, link[2], link[1]>>

(* get_user, lines 66-75: the warning is logged iff a heading is present *)
(* and its trimmed inner html differs from the display name              *)
HeadingWarns(h1, display_name) ==
    h1 # None /\ trim(h1[1].inner) # display_name

----------------------------------------------------------------------------------------------------------------------------------------------------------------------------------------------------
(* The state machine *)

NoDoc == <<>>

(* Fail, were the failing entry skipped and the walk continued *)
Fail_Continue(e) == pc' = "next_user" /\ err' = e

(* the ? operator: the error is returned from main *)
Fail(e) == pc' = "exit" /\ err' = e

(* one entry of ops: a GET, a create_dir_all or a write; what is "text"   *)
(* for the page itself and the selector's name for an asset               *)
Get(what) == [op |-> "get", dir |-> <<>>, name |-> <<>>, what |-> what]
CreateDirAll(dir) == [op |-> "create_dir_all", dir |-> dir, name |-> <<>>, what |-> "dir"]
Write(dir, name, what) == [op |-> "write", dir |-> dir, name |-> name, what |-> what]

Touch(fs, dir, p) ==
    IF dir \in DOMAIN fs
    THEN [fs EXCEPT ![dir] = @ \cup {p}]
    ELSE fs @@ (dir :> {p})

(* SnapshotDir, were the test of the flag inverted *)
SnapshotDir_Inverted(disable) ==
    IF disable THEN Some(<<SNAPSHOT_BASE_DIR, RunTimestamp>>) ELSE None

(* main, lines 18-22 *)
SnapshotDir(disable) ==
    IF disable THEN None ELSE Some(<<SNAPSHOT_BASE_DIR, RunTimestamp>>)

Init ==
    /\ disable_snapshot \in BOOLEAN
    /\ snapshot_dir = SnapshotDir(disable_snapshot)
    /\ pc = "get_html"
    /\ page = 0
    /\ url = BASE_URL
    /\ target_dir = snapshot_dir
    /\ doc = NoDoc
    /\ heading = None
    /\ anchors = <<>>
    /\ users = <<>>
    /\ completed = 0
    /\ screen_name = <<>>
    /\ titles = <<>>
    /\ rows = <<>>
    /\ fetched = <<>>
    /\ ops = <<>>
    /\ dirs = <<>>
    /\ warned = FALSE
    /\ err = "None"

(* get_html, lines 81-85: the GET of the page and the parse of its text *)
Fetch ==
    /\ pc = "get_html"
    /\ fetched' = Append(fetched, url)
    /\ ops' = Append(ops, Get("text"))
    /\ \E response \in {"ok", "HttpClient"} :
          IF response = "ok"
          THEN /\ pc' = IF target_dir = None THEN "select" ELSE "create_dir"
               /\ err' = err
          ELSE Fail("HttpClient")
    /\ UNCHANGED <<disable_snapshot, snapshot_dir, page, url, target_dir, doc, heading,
                   anchors, users, completed, screen_name, titles, rows, dirs,
                   warned>>

(* get_html, line 86 *)
CreateDir ==
    /\ pc = "create_dir"
    /\ \E result \in {"ok", "Io"} :
          IF result = "ok"
          THEN /\ dirs' = Touch(dirs, target_dir[1], page)
               /\ ops' = Append(ops, CreateDirAll(target_dir[1]))
               /\ pc' = "write_index"
               /\ err' = err
          ELSE Fail("Io") /\ UNCHANGED <<dirs, ops>>
    /\ UNCHANGED <<disable_snapshot, snapshot_dir, page, url, target_dir, doc, heading,
                   anchors, users, completed, screen_name, titles, rows, fetched,
                   warned>>

(* get_html, line 87 *)
WriteIndexHtml ==
    /\ pc = "write_index"
    /\ \E result \in {"ok", "Io"} :
          IF result = "ok"
          THEN /\ dirs' = Touch(dirs, target_dir[1], page)
               /\ ops' = Append(ops, Write(target_dir[1], IndexHtml, "text"))
               /\ pc' = "stylesheet"
               /\ err' = err
          ELSE Fail("Io") /\ UNCHANGED <<dirs, ops>>
    /\ UNCHANGED <<disable_snapshot, snapshot_dir, page, url, target_dir, doc, heading,
                   anchors, users, completed, screen_name, titles, rows, fetched,
                   warned>>

(* SaveAsset, were a failed download skipped instead of returned *)
SaveAsset_SkipOnFailure(sel, found, next) ==
    IF ~found.ok
    THEN Fail(found.val) /\ UNCHANGED <<dirs, ops>>
    ELSE IF found.val = None
    THEN pc' = next /\ UNCHANGED <<dirs, ops, err>>
    ELSE \E result \in {"ok", "HttpClient", "Io"} :
            IF result = "ok"
            THEN /\ dirs' = Touch(dirs, target_dir[1], page)
                 /\ ops' = ops \o <<Get(sel),
                                     Write(target_dir[1], found.val[1][2], sel)>>
                 /\ pc' = next
                 /\ err' = err
            ELSE /\ pc' = next
                 /\ err' = err
                 /\ ops' = Append(ops, Get(sel))
                 /\ dirs' = dirs

(* save_file, lines 106-112, for the asset that get_stylesheet or get_img *)
(* found for the selector sel; next is where get_html goes on             *)
SaveAsset(sel, found, next) ==
    IF ~found.ok
    THEN Fail(found.val) /\ UNCHANGED <<dirs, ops>>
    ELSE IF found.val = None
    THEN pc' = next /\ UNCHANGED <<dirs, ops, err>>
    ELSE \E result \in {"ok", "HttpClient", "Io"} :
            IF result = "ok"
            THEN /\ dirs' = Touch(dirs, target_dir[1], page)
                 /\ ops' = ops \o <<Get(sel),
                                     Write(target_dir[1], found.val[1][2], sel)>>
                 /\ pc' = next
                 /\ err' = err
            ELSE /\ Fail(result)
                 /\ ops' = Append(ops, Get(sel))
                 /\ dirs' = dirs

(* get_html, lines 88-94 *)
SaveStylesheet ==
    /\ pc = "stylesheet"
    /\ \E link \in AssetMatches("stylesheet") :
          /\ doc' = doc @@ ("stylesheet" :> link)
          /\ SaveAsset("stylesheet", get_stylesheet(link, url), "banner")
    /\ UNCHANGED <<disable_snapshot, snapshot_dir, page, url, target_dir, heading, anchors,
                   users, completed, screen_name, titles, rows, fetched, warned>>

(* get_html, lines 95-97 *)
SaveBanner ==
    /\ pc = "banner"
    /\ \E link \in AssetMatches("banner") :
          /\ doc' = doc @@ ("banner" :> link)
          /\ SaveAsset("banner", get_img(link, url), "profile")
    /\ UNCHANGED <<disable_snapshot, snapshot_dir, page, url, target_dir, heading, anchors,
                   users, completed, screen_name, titles, rows, fetched, warned>>

(* get_html, lines 98-100 *)
SaveProfile ==
    /\ pc = "profile"
    /\ \E link \in AssetMatches("profile") :
          /\ doc' = doc @@ ("profile" :> link)
          /\ SaveAsset("profile", get_img(link, url), "select")
    /\ UNCHANGED <<disable_snapshot, snapshot_dir, page, url, target_dir, heading, anchors,
                   users, completed, screen_name, titles, rows, fetched, warned>>

(* main, lines 25-28, once get_html has returned the index page *)
ParseIndex ==
    /\ pc = "select"
    /\ page = 0
    /\ \E matched \in SeqUpTo(IndexAnchors, MaxUsers) :
          /\ anchors' = Append(anchors, matched)
          /\ IF collect(matched).ok
             THEN users' = collect(matched).val /\ pc' = "next_user" /\ err' = err
             ELSE Fail(collect(matched).val) /\ users' = users
    /\ doc' = NoDoc
    /\ ops' = <<>>
    /\ UNCHANGED <<disable_snapshot, snapshot_dir, page, url, target_dir, heading,
                   completed, screen_name, titles, rows, fetched, dirs, warned>>

(* main, lines 34-48: the next iteration of the loop, up to the call of *)
(* get_user, which calls get_html                                        *)
NextUser ==
    /\ pc = "next_user"
    /\ page < Len(users)
    /\ LET raw_url == users[page + 1][1]
           user_url == UrlJoin(BASE_URL, raw_url)
           sn == ScreenName(raw_url)
       IN IF ~user_url.ok
          THEN Fail(user_url.val)
               /\ UNCHANGED <<page, url, target_dir, screen_name, heading,
                              warned, titles>>
          ELSE IF ~sn.ok
          THEN Fail(sn.val)
               /\ UNCHANGED <<page, url, target_dir, screen_name, heading,
                              warned, titles>>
          ELSE /\ page' = page + 1
               /\ url' = user_url.val
               /\ screen_name' = sn.val
               /\ target_dir' = IF snapshot_dir = None
                                THEN None
                                ELSE Some(PathJoin(snapshot_dir[1], sn.val))
               /\ heading' = None
               /\ warned' = FALSE
               /\ titles' = <<>>
               /\ pc' = "get_html"
               /\ err' = err
    /\ UNCHANGED <<disable_snapshot, snapshot_dir, doc, anchors, users, completed,
                   rows, fetched, ops, dirs>>

(* GetUserSelect, were a heading mismatch returned as an error *)
GetUserSelect_FailOnMismatch ==
    /\ pc = "select"
    /\ page > 0
    /\ \E h1 \in H1Matches, matched \in ProfileAnchorLists :
          /\ heading' = h1
          /\ anchors' = Append(anchors, matched)
          /\ warned' = HeadingWarns(h1, users[page][2])
          /\ IF HeadingWarns(h1, users[page][2])
             THEN Fail("InvalidHtml") /\ titles' = titles
             ELSE IF collect(matched).ok
             THEN titles' = collect(matched).val /\ pc' = "write_records"
                  /\ err' = err
             ELSE Fail(collect(matched).val) /\ titles' = titles
    /\ doc' = NoDoc
    /\ ops' = <<>>
    /\ UNCHANGED <<disable_snapshot, snapshot_dir, page, url, target_dir, users,
                   completed, screen_name, rows, fetched, dirs>>

(* get_user, lines 66-77, once get_html has returned the user's page *)
GetUserSelect ==
    /\ pc = "select"
    /\ page > 0
    /\ \E h1 \in H1Matches, matched \in ProfileAnchorLists :
          /\ heading' = h1
          /\ anchors' = Append(anchors, matched)
          /\ warned' = HeadingWarns(h1, users[page][2])
          /\ IF collect(matched).ok
             THEN titles' = collect(matched).val /\ pc' = "write_records"
                  /\ err' = err
             ELSE Fail(collect(matched).val) /\ titles' = titles
    /\ doc' = NoDoc
    /\ ops' = <<>>
    /\ UNCHANGED <<disable_snapshot, snapshot_dir, page, url, target_dir, users,
                   completed, screen_name, rows, fetched, dirs>>

(* main, lines 42-51: the records of one user; the write of record n + 1 *)
(* fails for some n below the number of records, or none fails           *)
WriteRecords ==
    /\ pc = "write_records"
    /\ \E n \in 0..Len(titles) :
          /\ rows' = rows \o [i \in 1..n |->
                                Record(screen_name, users[page][2], titles[i])]
          /\ IF n = Len(titles)
             THEN pc' = "next_user" /\ err' = err /\ completed' = completed + 1
             ELSE Fail("Csv") /\ completed' = completed
    /\ UNCHANGED <<disable_snapshot, snapshot_dir, page, url, target_dir, doc, heading,
                   anchors, users, screen_name, titles, fetched, ops, dirs, warned>>

(* main, line 54 *)
Return ==
    /\ pc = "next_user"
    /\ page = Len(users)
    /\ pc' = "exit"
    /\ UNCHANGED <<disable_snapshot, snapshot_dir, page, url, target_dir, doc, heading,
                   anchors, users, completed, screen_name, titles, rows, fetched,
                   ops, dirs, warned, err>>

Next ==
    \/ Fetch
    \/ CreateDir
    \/ WriteIndexHtml
    \/ SaveStylesheet
    \/ SaveBanner
    \/ SaveProfile
    \/ ParseIndex
    \/ NextUser
    \/ GetUserSelect
    \/ WriteRecords
    \/ Return

Spec == Init /\ [][Next]_vars
----------------------------------------------------------------------------
(* Definitions used to state the properties *)

AliceSlash == <<"/","u","s","e","r","s","/","a","l","i","c","e","/">>
AliceNoSlash == <<"/","u","s","e","r","s","/","a","l","i","c","e">>
UsersSlash == <<"/","u","s","e","r","s","/">>
alice == <<"a","l","i","c","e">>

IsPrefix(a, b) == Len(a) <= Len(b) /\ SubSeq(b, 1, Len(a)) = a

AllHaveHref(elements) == \A i \in 1..Len(elements) : elements[i].attr # None

(* the rows of the k-th index anchor, from the elements of the two pages *)
RowsOfUser(k) ==
    [i \in 1..Len(anchors[k + 1]) |->
        << ScreenName(anchors[1][k].attr[1]).val,
           anchors[1][k].inner,
           anchors[k + 1][i].inner,
           anchors[k + 1][i].attr[1] >>]

RECURSIVE RowsUpTo(_)
RowsUpTo(m) == IF m = 0 THEN <<>> ELSE RowsUpTo(m - 1) \o RowsOfUser(m)

(* what a complete snapshot of a page does, from the elements the page has *)
Shape(o) == <<o.op, o.what, o.dir>>
AssetOps(d, dir, sel) ==
    IF sel \in DOMAIN d /\ d[sel] # None /\ d[sel][1].attr # None
    THEN <<Shape(Get(sel)), <<"write", sel, dir>> >>
    ELSE <<>>
SnapshotOps(d, dir) ==
    << <<"get", "text", <<>> >>, <<"create_dir_all", "dir", dir>>,
       <<"write", "text", dir>> >>
    \o AssetOps(d, dir, "stylesheet") \o AssetOps(d, dir, "banner")
    \o AssetOps(d, dir, "profile")
OpsShape == [i \in 1..Len(ops) |-> Shape(ops[i])]

----------------------------------------------------------------------------
(* C1, as stated: "/users/alice/" and "/users/alice" give "alice", and an *)
(* anchor whose href is "/users/" is never handled: the walk stops before *)
(* the page of that user is fetched.                                      *)
C1_UsersSlashFails ==
    /\ page >= 1 /\ users[page][1] \in {AliceSlash, AliceNoSlash}
          => screen_name = alice
    /\ \A k \in 1..Len(users) : users[k][1] = UsersSlash => page < k

(* C1, amended: "/users/alice/" and "/users/alice" give "alice"; "/users/" *)
(* gives "users" (trimming leaves "/users", whose last segment is "users") *)
(* and the walk never stops at such an anchor: it goes on to fetch the     *)
(* page of that user.                                                      *)
C1_ScreenNameDerivation ==
    /\ page >= 1 /\ users[page][1] \in {AliceSlash, AliceNoSlash}
          => screen_name = alice
    /\ page >= 1 /\ users[page][1] = UsersSlash
          => screen_name = <<"u","s","e","r","s">>
    /\ pc = "exit" /\ completed = page /\ page < Len(users)
          => users[page + 1][1] # UsersSlash

C1_Witness ==
    /\ Len(users) >= 1
    /\ page = 1
    /\ users[1][1] = UsersSlash
    /\ screen_name = <<"u","s","e","r","s">>
    /\ Len(fetched) = 2

(* C2, as stated: every screen name the walk uses (to fetch a user page,  *)
(* to name a snapshot directory, in a row) is a non-empty string.         *)
C2_ScreenNameNonEmpty ==
    /\ page >= 1 => screen_name # <<>>
    /\ \A i \in 1..Len(rows) : rows[i][1] # <<>>

(* In a run without failure the pages of the index anchors are            *)
(* fetched one per anchor, in document order, duplicates included, and    *)
(* the walk turns to the next anchor only when the previous user's rows   *)
(* are all written, which it does once the snapshot of the user's page is *)
(* complete.                                                              *)
C3_State ==
    /\ pc = "select" /\ target_dir # None
          => OpsShape = SnapshotOps(doc, target_dir[1])
    /\ Len(fetched) = (IF pc = "get_html" THEN page ELSE page + 1)
    /\ Len(fetched) >= 1 => fetched[1] = BASE_URL
    /\ \A k \in 1..(Len(fetched) - 1) :
          fetched[k + 1] = UrlJoin(BASE_URL, anchors[1][k].attr[1]).val
    /\ pc = "exit" /\ err = "None" => Len(fetched) = Len(anchors[1]) + 1

C3_Step ==
    /\ page' = page + 1 =>
          /\ pc = "next_user"
          /\ completed = page
          /\ rows = RowsUpTo(page)
    /\ pc' = "next_user" => pc \in {"select", "write_records"}
    /\ pc' = "write_records" => pc = "select"

(* C3: C3_State holds in every state and C3_Step of every step: exactly   *)
(* one page request per index anchor, in document order, each begun only  *)
(* after the previous user's snapshot and rows are complete.              *)
C3_FetchPerAnchorInOrder == [](C3_State) /\ [][C3_Step]_vars

C3_Witness ==
    /\ pc = "exit" /\ err = "None"
    /\ Len(anchors[1]) = 2
    /\ anchors[1][1] = anchors[1][2]
    /\ Len(fetched) = 3
    /\ fetched[2] = fetched[3]

(* C4: while nothing has failed, the rows written are the rows of the     *)
(* completed users in the order of the index anchors, each user's rows in *)
(* the order of the main-content anchors of its page, one row per anchor; *)
(* a run that ends without failure has completed every index anchor.      *)
C4_RowsInDocumentOrder ==
    /\ err = "None" => rows = RowsUpTo(completed)
    /\ pc = "exit" /\ err = "None" => completed = Len(anchors[1])

C4_Witness ==
    /\ pc = "exit" /\ err = "None"
    /\ Len(anchors) = 3
    /\ Len(anchors[2]) = 2
    /\ Len(anchors[3]) = 1
    /\ Len(rows) = 3
    /\ rows[1] = <<alice, Alice, <<"T","1">>, <<"t","1">> >>
    /\ rows[2] = <<alice, Alice, <<"T","2">>, <<"t","2">> >>
    /\ rows[3] = << <<"b","o","b">>, Bob, <<"T","1">>, <<"t","1">> >>

(* C5: with snapshotting disabled no directory is created, no file is     *)
(* written and no asset is requested: the only operations of a get_html   *)
(* call are the GET of the page itself.                                   *)
C5_NoSnapshotNoFilesystem ==
    disable_snapshot =>
        /\ dirs = <<>>
        /\ \A i \in 1..Len(ops) : ops[i] = Get("text")

C5_Witness ==
    /\ disable_snapshot
    /\ pc = "exit" /\ err = "None"
    /\ completed = 2
    /\ Len(rows) >= 2

(* C6: with snapshotting enabled the operations on a page are, in this    *)
(* order, the directory, index.html, then for the stylesheet, the banner  *)
(* and the profile image that the page has, its download and its write,   *)
(* all in the directory of the page; they are all done when get_html has  *)
(* returned, and a failure leaves a prefix of them and nothing else.      *)
C6_SnapshotWriteOrder ==
    target_dir # None =>
        /\ IsPrefix(OpsShape, SnapshotOps(doc, target_dir[1]))
        /\ pc = "select" => OpsShape = SnapshotOps(doc, target_dir[1])

C6_Witness ==
    /\ target_dir # None
    /\ pc = "select"
    /\ page = 1
    /\ Len(ops) = 9
    /\ [i \in 1..Len(ops) |-> ops[i].what] =
          <<"text", "dir", "text", "stylesheet", "stylesheet", "banner",
            "banner", "profile", "profile">>

C6_WitnessOnlyIndexHtml ==
    /\ target_dir # None
    /\ pc = "select"
    /\ doc = [sel \in {"stylesheet", "banner", "profile"} |-> None]
    /\ Len(ops) = 3

(* C7: a user page whose heading differs from the display name is handled *)
(* as any other: a warning is logged, the page's anchors decide alone     *)
(* whether get_user fails, and all the rows of the user are written.      *)
C7_HeadingMismatchNotFatal ==
    (/\ page >= 1
     /\ heading # None
     /\ trim(heading[1].inner) # anchors[1][page].inner)
    => /\ warned
       /\ AllHaveHref(anchors[page + 1])
             => /\ err # "InvalidHtml"
                /\ titles = [i \in 1..Len(anchors[page + 1]) |->
                               <<anchors[page + 1][i].attr[1],
                                 anchors[page + 1][i].inner>>]
                /\ pc = "next_user" => completed = page /\ rows = RowsUpTo(page)
       /\ ~AllHaveHref(anchors[page + 1]) => pc = "exit" /\ err = "InvalidHtml"

C7_Witness ==
    /\ pc = "next_user"
    /\ page = 1
    /\ Len(users) = 2
    /\ heading = Some([attr |-> None, inner |-> Bob])
    /\ anchors[1][1].inner = Alice
    /\ warned
    /\ Len(rows) = 2

(* C8: an index page with an anchor that has no href ends the run with    *)
(* InvalidHtml when its anchors are collected: no user page is fetched    *)
(* and no row is written, wherever the anchor stands.                     *)
C8_MissingHrefAborts ==
    (Len(anchors) >= 1 /\ ~AllHaveHref(anchors[1]))
    => /\ pc = "exit"
       /\ err = "InvalidHtml"
       /\ rows = <<>>
       /\ users = <<>>
       /\ page = 0
       /\ Len(fetched) = 1

C8_Witness ==
    /\ Len(anchors) = 1
    /\ Len(anchors[1]) = 2
    /\ anchors[1][1].attr # None
    /\ anchors[1][2].attr = None
    /\ pc = "exit"

(* C9, as stated: after the first error the rows written are exactly the  *)
(* complete rows of a number of users.                                    *)
C9_OnlyCompleteUsers ==
    pc = "exit" /\ err # "None" =>
        \E m \in 0..Len(users) :
            /\ m <= Len(anchors) - 1 \/ m = 0
            /\ \A k \in 1..m : AllHaveHref(anchors[k + 1])
            /\ rows = RowsUpTo(m)

(* C9, amended: the first error ends the walk at once, and the rows       *)
(* written are all the rows of the completed users, followed, only when   *)
(* the failing step is the write of a record, by the records of the       *)
(* current user written before the failing one.                           *)
C9_FirstErrorEndsWalk ==
    /\ err # "None" => pc = "exit"
    /\ err \notin {"None", "Csv"} => rows = RowsUpTo(completed)
    /\ err = "Csv" =>
          /\ page = completed + 1
          /\ \E n \in 0..(Len(anchors[page + 1]) - 1) :
                rows = RowsUpTo(completed) \o SubSeq(RowsOfUser(page), 1, n)

C9_Witness ==
    /\ err = "Csv"
    /\ page = 2
    /\ Len(anchors[2]) = 1
    /\ Len(anchors[3]) = 2
    /\ Len(rows) = 2

(* C10, as stated: no directory is used by the snapshots of two pages.    *)
C10_OneDirectoryPerPage ==
    \A d \in DOMAIN dirs : Cardinality(dirs[d]) <= 1

====
